---- MODULE Spec2Model ----
(***************************************************************************)
(* Judge-score collection and finalize-once workflow of the SCAR judge     *)
(* portal (tournaments/models.py, tournaments/views.py), for one match id. *)
(*                                                                         *)
(* Python values are modelled as follows.  An optional value is a sequence *)
(* of length at most one: None is << >>, a present value x is << x >>.     *)
(* A dict is the sequence of its <<key, value>> items in insertion order   *)
(* (Python dicts keep insertion order; assigning to an existing key keeps  *)
(* its position).  The 'submittedAt' timestamp of a submission is not      *)
(* modelled.                                                               *)
(***************************************************************************)
EXTENDS Integers, Sequences, FiniteSets, TLC

VARIABLES
    db,            \* the stored JudgeScore row of the match: None or Some(row)
    pc,            \* position of each request handler
    local,         \* each handler's loaded model instance (`score`)
    req,           \* each handler's request arguments
    resp,          \* the response returned last
    attachments,   \* match attachments held by the bracket provider, per tournament
    computed,      \* aggregator specification: the last calculate_result() value
    finalizeRuns,  \* how often the finalization block has been executed
    recoveries,    \* how often the detail read has recreated the row
    nreq,          \* number of requests handled so far
    events,        \* the Event table
    outbound,      \* the calls the last finalization made to other services
    active_matches, \* the ActiveMatch table
    repair_resets, \* the RepairTimerReset table
    finalizedAs    \* the row as the last finalization stored it

vars == <<db, pc, local, req, resp, attachments, computed, finalizeRuns, recoveries, nreq,
          events, outbound, active_matches, repair_resets, finalizedAs>>

-----------------------------------------------------------------------------
(* Bounds of the model *)

MaxReqs == 4        \* requests handled in one behaviour (request specifications)
MaxSubs == 4        \* submissions per record in the aggregator specification

(* Program constants *)

QUORUM == 3                 \* views.py:238  judge_count >= 3
max_points_per_judge == 11  \* models.py:120
total_max_points == max_points_per_judge * 3   \* models.py:121
fixed_judge_max == 11       \* models.py:144  judge_score_b = 11 - judge_score_a

-----------------------------------------------------------------------------
(* Optional values *)

None == << >>
Some(x) == << x >>
IsNone(o) == Len(o) = 0
Val(o) == o[1]

(* Python dict as an insertion-ordered item sequence *)

EmptyDict == << >>
DictKeys(d) == { d[i][1] : i \in 1..Len(d) }
DictHas(d, k) == k \in DictKeys(d)
DictIndex(d, k) == CHOOSE i \in 1..Len(d) : d[i][1] = k
DictGet(d, k) == d[DictIndex(d, k)][2]
DictValues(d) == [ i \in 1..Len(d) |-> d[i][2] ]
DictSet(d, k, v) ==
    IF DictHas(d, k)
    THEN [ d EXCEPT ![DictIndex(d, k)] = <<k, v>> ]
    ELSE Append(d, <<k, v>>)
DictDel(d, k) ==
    SelectSeq(d, LAMBDA item : item[1] # k)

RECURSIVE SumSeq(_)
SumSeq(s) == IF Len(s) = 0 THEN 0 ELSE s[1] + SumSeq(Tail(s))

-----------------------------------------------------------------------------
(* Score mappings: category identifier -> points.  scores.get(c, 0). *)

ScoreGet(scores, c) == IF c \in DOMAIN scores THEN scores[c] ELSE 0

Std(a, d, c) == [ k \in {"aggression", "damage", "control"} |->
                    CASE k = "aggression" -> a [] k = "damage" -> d [] OTHER -> c ]
EmptyScores == [ k \in {} |-> 0 ]
ScoreMaps ==
    { EmptyScores,                       \* {}
      Std(3, 5, 3),                      \* the full 11 points to A
      Std(0, 0, 0),                      \* nothing to A
      [ k \in {"damage"} |-> 5 ],        \* 5 to A
      [ k \in {"aggression", "control"} |-> 3 ],   \* 6 to A
      [ k \in {"damage", "speed"} |-> IF k = "damage" THEN 5 ELSE 4 ],  \* custom category
      Std(5, 5, 5) }                     \* 15: above the per-judge maximum

(* Identifiers a request may carry *)
KoWinnerIds == {0, 1, 2, 3}
CompetitorPairs == { <<1, 2>> }
Tournaments == { "t1" }
Judges == { "j1", "j2", "j3" }
Procs == { "p1", "p2" }
TournamentParams == Tournaments \cup { "" }

Submission(scores, is_ko, ko_winner_id) ==
    [ scores |-> scores, isKO |-> is_ko, koWinnerId |-> ko_winner_id ]

(* Python truthiness of the two fields calculate_result tests *)
Truthy_koWinnerId(o) == ~IsNone(o) /\ Val(o) # 0
Truthy_scores(o) == ~IsNone(o) /\ DOMAIN Val(o) # {}

-----------------------------------------------------------------------------
(* JudgeScore row *)

NewRow(tournament_id, a, b) ==
    [ tournament_id |-> tournament_id,
      competitor_a_id |-> a,
      competitor_b_id |-> b,
      judges |-> EmptyDict,
      finalized |-> FALSE,
      result |-> None ]

judge_count(self) == Len(self.judges)

(* add_judge_score without the save(): the instance after the assignment *)
add_judge_score(self, judge_id, sub) ==
    [ self EXCEPT !.judges = DictSet(self.judges, judge_id, sub) ]

(* remove_judge_score without the save() *)
remove_judge_score(self, judge_id) ==
    [ self EXCEPT !.judges = DictDel(self.judges, judge_id) ]

(* ko_votes: the winner ids of the counted knockout votes, in judge order *)
KoVotes(judges) ==
    LET vals == DictValues(judges)
        counted == SelectSeq(vals, LAMBDA j : j.isKO /\ Truthy_koWinnerId(j.koWinnerId))
    IN  [ i \in 1..Len(counted) |-> Val(counted[i].koWinnerId) ]

VoteCount(votes, w) == Cardinality({ i \in 1..Len(votes) : votes[i] = w })

(* variant: the first counted vote decides *)
KoMajority_firstVote(votes) ==
    IF votes = << >> THEN None ELSE Some(votes[1])

(* variant: a knockout needs more than 2 votes *)
KoMajority_threeVotes(votes) ==
    LET firsts == { i \in 1..Len(votes) :
                      /\ VoteCount(votes, votes[i]) > 2
                      /\ \A k \in 1..(i - 1) : votes[k] # votes[i] }
    IN  IF firsts = {} THEN None
        ELSE Some(votes[CHOOSE i \in firsts : \A k \in firsts : i <= k])

(* first key of ko_votes (in insertion order) with 2 or more votes, if any *)
KoMajority(votes) ==
    LET firsts == { i \in 1..Len(votes) :
                      /\ VoteCount(votes, votes[i]) >= 2
                      /\ \A k \in 1..(i - 1) : votes[k] # votes[i] }
    IN  IF firsts = {} THEN None
        ELSE Some(votes[CHOOSE i \in firsts : \A k \in firsts : i <= k])

judge_score_a(scores) ==
    ScoreGet(scores, "aggression") + ScoreGet(scores, "damage") + ScoreGet(scores, "control")

(* variant: B's share taken from a maximum of 10 *)
judge_score_b_wrongMax(scores) == 10 - judge_score_a(scores)

judge_score_b(scores) == fixed_judge_max - judge_score_a(scores)

(* variant: A also wins a tie *)
PointsWinner_tieToA(self, total_a, total_b) ==
    IF total_a >= total_b THEN self.competitor_a_id ELSE self.competitor_b_id

PointsWinner(self, total_a, total_b) ==
    IF total_a > total_b THEN self.competitor_a_id ELSE self.competitor_b_id

calculate_result(self) ==
    LET votes == KoVotes(self.judges)
        maj == KoMajority(votes)
        vals == DictValues(self.judges)
        scored == SelectSeq(vals, LAMBDA j : Truthy_scores(j.scores))
        total_a == SumSeq([ i \in 1..Len(scored) |-> judge_score_a(Val(scored[i].scores)) ])
        total_b == SumSeq([ i \in 1..Len(scored) |-> judge_score_b(Val(scored[i].scores)) ])
    IN  IF ~IsNone(maj)
        THEN LET winner_id == Val(maj)
                 is_winner_a == winner_id = self.competitor_a_id
             IN  [ winnerId |-> winner_id,
                   winMethod |-> "ko",
                   scoreA |-> IF is_winner_a THEN total_max_points ELSE 0,
                   scoreB |-> IF is_winner_a THEN 0 ELSE total_max_points,
                   koVotes |-> VoteCount(votes, winner_id) ]
        ELSE [ winnerId |-> PointsWinner(self, total_a, total_b),
               winMethod |-> "points",
               scoreA |-> total_a,
               scoreB |-> total_b ]

-----------------------------------------------------------------------------
(* Requests and responses *)

NoReq ==
    [ kind |-> "none", judge_id |-> "", sub |-> Submission(None, FALSE, None),
      tournament_id |-> "", competitor_a_id |-> 0, competitor_b_id |-> 0 ]

NoResp ==
    [ kind |-> "none", status |-> 0, success |-> FALSE, finalized |-> FALSE,
      judgeCount |-> 0, result |-> None, challongeResponse |-> "none",
      waitingFor |-> 0, error |-> "" ]

(* payloads the judges send in the request specifications *)
SubmitPayloads ==
    { Submission(Some(Std(3, 5, 3)), FALSE, None),
      Submission(None, TRUE, Some(2)) }

(* Response(serializer.errors, status=400) *)
ErrorResp(kind, status) ==
    [ NoResp EXCEPT !.kind = kind, !.status = status ]

(* views.py:286-291: success, finalized False, 'Waiting for N more judge(s)' *)
WaitingResp(score) ==
    [ NoResp EXCEPT !.kind = "submit", !.status = 200, !.success = TRUE,
                    !.judgeCount = judge_count(score),
                    !.waitingFor = QUORUM - judge_count(score) ]

(* views.py:278-284 *)
FinalizedResp(score, result, challonge_result) ==
    [ kind |-> "submit", status |-> 200, success |-> TRUE, finalized |-> TRUE,
      judgeCount |-> judge_count(score), result |-> Some(result),
      challongeResponse |-> challonge_result,
      waitingFor |-> 0, error |-> "" ]

(* views.py:439 *)
DeletedResp ==
    [ NoResp EXCEPT !.kind = "delete", !.status = 200, !.success = TRUE ]

(* the error responses of delete_judge_score *)
DeleteError(status, error) ==
    [ NoResp EXCEPT !.kind = "delete", !.status = status, !.error = error ]

(* variant: the test does not look at the finalized flag *)
ReachedQuorum_again(score) == judge_count(score) >= QUORUM

(* variant: the test passes only above the quorum *)
ReachedQuorum_above(score) == judge_count(score) > QUORUM /\ ~score.finalized

(* the quorum test of the submit handler, on the handler's own instance *)
ReachedQuorum(score) == judge_count(score) >= QUORUM /\ ~score.finalized

(* views.py:257-263: the breakdown json.dumps writes; json.loads gives it back *)
Breakdown(score, result) ==
    [ type |-> "judge_scores",
      judges |-> score.judges,
      competitorAId |-> score.competitor_a_id,
      competitorBId |-> score.competitor_b_id,
      result |-> Some(result) ]

(* a handler is free to take the next request; the handlers being
   interchangeable, of two free handlers the first takes it *)
CanStart(p) ==
    /\ pc[p] = "idle"
    /\ nreq < MaxReqs
    /\ p = "p2" => pc["p1"] # "idle"

Finish(p) ==
    /\ pc' = [ pc EXCEPT ![p] = "idle" ]
    /\ local' = [ local EXCEPT ![p] = None ]
    /\ req' = [ req EXCEPT ![p] = NoReq ]

-----------------------------------------------------------------------------
(* POST matches/<match_id>/scores *)

(* serializers.py:63-66: the fields without required=False or a default *)
RequiredFields ==
    { "judge_id", "tournament_id", "competitor_a_id", "competitor_b_id" }

(* serializer.is_valid() on a request that supplies the fields `present` *)
is_valid(present) == RequiredFields \subseteq present

(* variant: the row is fetched or created before the validation *)
SubmitInvalid_afterCreate(p, present) ==
    /\ CanStart(p)
    /\ ~is_valid(present)
    /\ nreq' = nreq + 1
    /\ db' = IF IsNone(db) THEN Some(NewRow("", 0, 0)) ELSE db
    /\ resp' = ErrorResp("submit", 400)
    /\ UNCHANGED <<pc, local, req, attachments, computed, finalizeRuns, recoveries,
                   events, outbound, active_matches, repair_resets, finalizedAs>>

(* serializer.is_valid() fails: a required field is missing *)
SubmitInvalid(p, present) ==
    /\ CanStart(p)
    /\ ~is_valid(present)
    /\ nreq' = nreq + 1
    /\ resp' = ErrorResp("submit", 400)
    /\ UNCHANGED <<db, pc, local, req, attachments, computed, finalizeRuns, recoveries, events, outbound,
                   active_matches, repair_resets, finalizedAs>>

(* variant: update_or_create, the identifiers of the request are written *)
get_or_create_updating(row, tournament_id, competitor_a_id, competitor_b_id) ==
    IF IsNone(row)
    THEN Some(NewRow(tournament_id, competitor_a_id, competitor_b_id))
    ELSE Some([ Val(row) EXCEPT !.tournament_id = tournament_id,
                                !.competitor_a_id = competitor_a_id,
                                !.competitor_b_id = competitor_b_id ])

(* views.py:219-227: the defaults are used only when the row is created *)
get_or_create(row, tournament_id, competitor_a_id, competitor_b_id) ==
    IF IsNone(row)
    THEN Some(NewRow(tournament_id, competitor_a_id, competitor_b_id))
    ELSE row

(* validation passes; JudgeScore.objects.get_or_create(match_id, defaults) *)
SubmitGetOrCreate(p, judge_id, sub, tournament_id, ab) ==
    /\ CanStart(p)
    /\ nreq' = nreq + 1
    /\ db' = get_or_create(db, tournament_id, ab[1], ab[2])
    /\ local' = [ local EXCEPT ![p] = db' ]
    /\ req' = [ req EXCEPT ![p] =
                  [ kind |-> "submit", judge_id |-> judge_id, sub |-> sub,
                    tournament_id |-> tournament_id,
                    competitor_a_id |-> ab[1], competitor_b_id |-> ab[2] ] ]
    /\ pc' = [ pc EXCEPT ![p] = "add" ]
    /\ UNCHANGED <<resp, attachments, computed, finalizeRuns, recoveries, events, outbound,
                   active_matches, repair_resets, finalizedAs>>

(* score.add_judge_score(...) with its save(), then the quorum test *)
SubmitAdd(p) ==
    /\ pc[p] = "add"
    /\ LET score == add_judge_score(Val(local[p]), req[p].judge_id, req[p].sub)
       IN  /\ db' = Some(score)
           /\ IF ReachedQuorum(score)
              THEN /\ local' = [ local EXCEPT ![p] = Some(score) ]
                   /\ pc' = [ pc EXCEPT ![p] = "finalize" ]
                   /\ UNCHANGED <<req, resp>>
              ELSE /\ resp' = WaitingResp(score)
                   /\ Finish(p)
    /\ UNCHANGED <<attachments, computed, finalizeRuns, recoveries, nreq, events, outbound,
                   active_matches, repair_resets, finalizedAs>>

(* variant: the flag is set and the result is not stored *)
Finalized_flagOnly(score, result) ==
    [ score EXCEPT !.finalized = TRUE ]

(* views.py:241-242: score.result = result; score.finalized = True *)
Finalized(score, result) ==
    [ score EXCEPT !.result = Some(result), !.finalized = TRUE ]

(* what the calls to the bracket provider may do: both succeed; the update
   succeeds and the attachment write fails; the update fails (the attachment
   write is then not attempted); the client cannot be built (no call is made) *)
ChallongeOutcomes == { "ok", "attachment_failed", "update_failed", "unavailable" }

(* a call to another service: which call, to which tournament or webhook, the
   winner and the score text passed, and whether it succeeded *)
Call(call, target, winner, text, ok) ==
    [ call |-> call, target |-> target, winner |-> winner, text |-> text, ok |-> ok ]

(* views.py:247-265: update_match(tournament_id, match_id, winnerId, "A-B"),
   then create_match_attachment; the tournament is the request's *)
ChallongeCalls(tournament_id, result, outcome) ==
    LET scores_csv == ToString(result.scoreA) \o "-" \o ToString(result.scoreB)
        update == Call("update_match", tournament_id, ToString(result.winnerId),
                       scores_csv, outcome # "update_failed")
        attach == Call("create_match_attachment", tournament_id, "", "",
                       outcome = "ok")
    IN  CASE outcome = "unavailable" -> << >>
          [] outcome = "update_failed" -> << update >>
          [] OTHER -> << update, attach >>

(* variant: the failure is not reported *)
ChallongeResult_silent(outcome) == "ok"

(* views.py:266-270: challonge_result is the provider's answer or {'error': ...} *)
ChallongeResult(outcome) ==
    IF outcome \in { "update_failed", "unavailable" } THEN "error" ELSE "ok"

(* an Event row, with the fields the notification reads *)
Event(event_id, tournaments, discord_webhook_url) ==
    [ event_id |-> event_id, tournaments |-> tournaments,
      discord_webhook_url |-> discord_webhook_url ]

(* the characters of the tournament identifiers in use *)
Chars(t) ==
    CASE t = "t1" -> << "t", "1" >>
      [] t = "t10" -> << "t", "1", "0" >>
      [] t = "" -> << >>
      [] OTHER -> << t >>

(* str(list) of a list of strings: ['t10', 't1'] *)
RECURSIVE StrOfItems(_)
StrOfItems(ts) ==
    IF ts = << >> THEN << >>
    ELSE << "'" >> \o Chars(Head(ts)) \o << "'" >>
         \o (IF Len(ts) > 1 THEN << ",", " " >> ELSE << >>)
         \o StrOfItems(Tail(ts))

StrOfList(ts) == << "[" >> \o StrOfItems(ts) \o << "]" >>

(* Python's a in b on strings *)
IsSubstring(a, b) ==
    \E i \in 0..(Len(b) - Len(a)) : SubSeq(b, i + 1, i + Len(a)) = a

(* views.py:302-309: the tournament is in the event's list, or its identifier
   occurs in the text of the list *)
EventMatches(e, tournament_id) ==
    \/ \E i \in 1..Len(e.tournaments) : e.tournaments[i] = tournament_id
    \/ IsSubstring(Chars(tournament_id), StrOfList(e.tournaments))

(* views.py:300-309: the first event, in query order, that matches *)
FindEvent(evs, tournament_id) ==
    LET found == { i \in 1..Len(evs) : EventMatches(evs[i], tournament_id) }
    IN  IF found = {} THEN None
        ELSE Some(evs[CHOOSE i \in found : \A k \in found : i <= k])

(* the name the bracket provider holds for a participant *)
NameOf(id) == "R" \o ToString(id)

(* how the lookup of the names ends: the names are found; the client cannot be
   built ('Unknown' is used); the fetch fails inside get_competitor_names,
   which then gives None for both names *)
NameOutcomes == { "resolved", "unavailable", "fetch_failed" }

(* what the notification meets: the name lookup and whether the post succeeds *)
ChatOutcomes == [ names : NameOutcomes, post : BOOLEAN ]

(* with no Event row the notification ends before the name lookup and the
   post, so that one outcome stands for all *)
ChatOutcomesFor(evs) ==
    IF evs = << >> THEN { [ names |-> "resolved", post |-> TRUE ] }
    ELSE ChatOutcomes

(* discord.py:62-63 *)
result_text(win_method, score_a, score_b) ==
    LET is_ko == win_method = "ko" \/ score_a = 0 \/ score_b = 0
    IN  IF is_ko THEN "KNOCKOUT!"
        ELSE ToString(score_a) \o " - " \o ToString(score_b)

(* variant: the post is attempted whether or not a webhook is found *)
send_discord_notification_always(evs, score, result, chat) ==
    << Call("discord_post", "", "Unknown",
            result_text(result.winMethod, result.scoreA, result.scoreB), chat.post) >>

(* views.py:294-360: the calls _send_discord_notification makes *)
send_discord_notification(evs, score, result, chat) ==
    LET event == FindEvent(evs, score.tournament_id)
    IN  IF IsNone(event) THEN << >>
        ELSE IF Val(event).discord_webhook_url = "" THEN << >>
        ELSE LET name(id) == CASE chat.names = "resolved" -> NameOf(id)
                               [] chat.names = "unavailable" -> "Unknown"
                               [] OTHER -> "None"
                 competitor_a == name(score.competitor_a_id)
                 competitor_b == name(score.competitor_b_id)
                 winner == IF result.winnerId = score.competitor_a_id
                           THEN competitor_a ELSE competitor_b
             IN  << Call("discord_post", Val(event).discord_webhook_url, winner,
                         result_text(result.winMethod, result.scoreA, result.scoreB),
                         chat.post) >>

(* views.py:239-284: calculate, store, report to the bracket provider, notify
   the chat, respond *)
SubmitFinalize(p, outcome, chat) ==
    /\ pc[p] = "finalize"
    /\ LET score == Val(local[p])
           result == calculate_result(score)
           saved == Finalized(score, result)
           tournament_id == req[p].tournament_id
       IN  /\ db' = Some(saved)
           /\ finalizeRuns' = finalizeRuns + 1
           /\ attachments' =
                 IF outcome = "ok"
                 THEN [ attachments EXCEPT ![tournament_id] =
                          Append(@, Breakdown(saved, result)) ]
                 ELSE attachments
           /\ finalizedAs' = Some(saved)
           /\ outbound' = ChallongeCalls(tournament_id, result, outcome)
                             \o send_discord_notification(events, saved, result, chat)
           /\ resp' = FinalizedResp(saved, result, ChallongeResult(outcome))
    /\ Finish(p)
    /\ UNCHANGED <<computed, recoveries, nreq, events, active_matches, repair_resets>>

-----------------------------------------------------------------------------
(* DELETE matches/<match_id>/scores/<judge_id> *)

(* variant: the finalized test is missing *)
DeleteRefused_never(score) == FALSE

(* views.py:435: if score.finalized *)
DeleteRefused(score) == score.finalized

(* variant: an absent entry is answered with success False and no error *)
ScoreNotFound_quiet ==
    [ NoResp EXCEPT !.kind = "delete", !.status = 200 ]

(* views.py:441: remove_judge_score returned False *)
ScoreNotFound == DeleteError(404, "Score not found")

(* JudgeScore.objects.get, the finalized test and the membership test *)
DeleteGet(p, judge_id) ==
    /\ CanStart(p)
    /\ nreq' = nreq + 1
    /\ IF IsNone(db)
       THEN /\ resp' = DeleteError(404, "Score not found")
            /\ UNCHANGED <<pc, local, req>>
       ELSE IF DeleteRefused(Val(db))
       THEN /\ resp' = DeleteError(400, "Match already finalized")
            /\ UNCHANGED <<pc, local, req>>
       ELSE IF ~DictHas(Val(db).judges, judge_id)
       THEN /\ resp' = ScoreNotFound
            /\ UNCHANGED <<pc, local, req>>
       ELSE /\ local' = [ local EXCEPT ![p] = db ]
            /\ req' = [ req EXCEPT ![p] = [ NoReq EXCEPT !.kind = "delete",
                                                         !.judge_id = judge_id ] ]
            /\ pc' = [ pc EXCEPT ![p] = "remove" ]
            /\ UNCHANGED resp
    /\ UNCHANGED <<db, attachments, computed, finalizeRuns, recoveries, events, outbound,
                   active_matches, repair_resets, finalizedAs>>

(* del self.judges[judge_id]; self.save(); return True *)
DeleteRemove(p) ==
    /\ pc[p] = "remove"
    /\ db' = Some(remove_judge_score(Val(local[p]), req[p].judge_id))
    /\ resp' = DeletedResp
    /\ Finish(p)
    /\ UNCHANGED <<attachments, computed, finalizeRuns, recoveries, nreq, events, outbound,
                   active_matches, repair_resets, finalizedAs>>

-----------------------------------------------------------------------------
(* Request specification: two handlers working on the same match *)

Init ==
    /\ db = None
    /\ pc = [ p \in Procs |-> "idle" ]
    /\ local = [ p \in Procs |-> None ]
    /\ req = [ p \in Procs |-> NoReq ]
    /\ resp = NoResp
    /\ attachments = [ t \in Tournaments |-> << >> ]
    /\ computed = None
    /\ finalizeRuns = 0
    /\ recoveries = 0
    /\ nreq = 0
    /\ events = << >>
    /\ outbound = << >>
    /\ active_matches = << >>
    /\ repair_resets = << >>
    /\ finalizedAs = None

(* the outcomes of the bracket calls in which the client exists *)
ClientOutcomes == ChallongeOutcomes \ { "unavailable" }

Next ==
    \/ \E p \in Procs, present \in SUBSET RequiredFields : SubmitInvalid(p, present)
    \/ \E p \in Procs, judge_id \in Judges, sub \in SubmitPayloads,
          tournament_id \in Tournaments, ab \in CompetitorPairs :
            SubmitGetOrCreate(p, judge_id, sub, tournament_id, ab)
    \/ \E p \in Procs : SubmitAdd(p)
    \/ \E p \in Procs, outcome \in ClientOutcomes,
          chat \in ChatOutcomesFor(events) :
            SubmitFinalize(p, outcome, chat)
    \/ \E p \in Procs, judge_id \in Judges : DeleteGet(p, judge_id)
    \/ \E p \in Procs : DeleteRemove(p)

Spec == Init /\ [][Next]_vars

-----------------------------------------------------------------------------
(* Loss of the local row and its recovery from the bracket provider *)

(* the JudgeScore row is deleted (Django admin, admin.py:26-31); taken
   between requests *)
AdminDelete ==
    /\ ~IsNone(db)
    /\ \A p \in Procs : pc[p] = "idle"
    /\ db' = None
    /\ UNCHANGED <<pc, local, req, resp, attachments, computed, finalizeRuns, recoveries, nreq, events, outbound,
                   active_matches, repair_resets, finalizedAs>>

(* views.py:370-378 and 416-424: the response of the detail read *)
DetailResp(row) ==
    IF IsNone(row)
    THEN [ NoResp EXCEPT !.kind = "details", !.status = 200 ]
    ELSE [ NoResp EXCEPT !.kind = "details", !.status = 200,
                         !.judgeCount = judge_count(Val(row)),
                         !.finalized = Val(row).finalized,
                         !.result = Val(row).result ]

(* the first attachment whose description parses to type 'judge_scores' *)
FirstBreakdown(atts) ==
    LET found == { i \in 1..Len(atts) : atts[i].type = "judge_scores" }
    IN  IF found = {} THEN None
        ELSE Some(atts[CHOOSE i \in found : \A k \in found : i <= k])

(* views.py:393-401: the row JudgeScore.objects.create builds from the data *)
RowFromBreakdown(tournament_id, data) ==
    [ tournament_id |-> tournament_id,
      competitor_a_id |-> data.competitorAId,
      competitor_b_id |-> data.competitorBId,
      judges |-> data.judges,
      finalized |-> TRUE,
      result |-> data.result ]

(* GET matches/<match_id>/scores/details: JudgeScore.objects.get *)
DetailGet(p, tournament_id) ==
    /\ CanStart(p)
    /\ nreq' = nreq + 1
    /\ IF ~IsNone(db) \/ tournament_id = ""
       THEN /\ resp' = DetailResp(db)
            /\ UNCHANGED <<pc, req>>
       ELSE /\ pc' = [ pc EXCEPT ![p] = "recreate" ]
            /\ req' = [ req EXCEPT ![p] = [ NoReq EXCEPT !.kind = "details",
                                              !.tournament_id = tournament_id ] ]
            /\ UNCHANGED resp
    /\ UNCHANGED <<db, local, attachments, computed, finalizeRuns, recoveries, events, outbound,
                   active_matches, repair_resets, finalizedAs>>

(* views.py:382-424: read the attachments, cache the breakdown in the database;
   create() fails on the unique match_id if the row exists by now, and the
   handler then answers as if nothing was found *)
DetailRecreate(p) ==
    /\ pc[p] = "recreate"
    /\ LET data == FirstBreakdown(attachments[req[p].tournament_id])
       IN  IF ~IsNone(data) /\ IsNone(db)
           THEN /\ db' = Some(RowFromBreakdown(req[p].tournament_id, Val(data)))
                /\ resp' = DetailResp(db')
                /\ recoveries' = recoveries + 1
           ELSE /\ resp' = DetailResp(None)
                /\ UNCHANGED <<db, recoveries>>
    /\ Finish(p)
    /\ UNCHANGED <<attachments, computed, finalizeRuns, nreq, events, outbound,
                   active_matches, repair_resets, finalizedAs>>

NextRecovery ==
    \/ Next
    \/ AdminDelete
    \/ \E p \in Procs, tournament_id \in TournamentParams : DetailGet(p, tournament_id)
    \/ \E p \in Procs : DetailRecreate(p)

SpecRecovery == Init /\ [][NextRecovery]_vars

-----------------------------------------------------------------------------
(* Configured specification: Event rows exist, and the requests differ in
   tournament, competitors and scores *)

SeqProcs == { "p1" }

SeqTournaments == { "t1", "t10" }

(* the tournament and the competitors a request names *)
SeqIds == { << "t1", <<1, 2>> >>, << "t10", <<2, 1>> >> }

SeqPayloads ==
    { Submission(Some(Std(5, 5, 5)), FALSE, None),
      Submission(None, TRUE, Some(2)) }

(* the Event tables: empty; one event that lists the tournament, with and
   without a webhook; an event of another tournament before it *)
EventTables ==
    { << >>,
      << Event("e1", << "t1" >>, "hook1") >>,
      << Event("e1", << "t1" >>, "") >>,
      << Event("e0", << "t10" >>, "hook0"), Event("e1", << "t1" >>, "hook1") >> }

SeqInit ==
    /\ db = None
    /\ pc = [ p \in Procs |-> "idle" ]
    /\ local = [ p \in Procs |-> None ]
    /\ req = [ p \in Procs |-> NoReq ]
    /\ resp = NoResp
    /\ attachments = [ t \in SeqTournaments |-> << >> ]
    /\ computed = None
    /\ finalizeRuns = 0
    /\ recoveries = 0
    /\ nreq = 0
    /\ events \in EventTables
    /\ outbound = << >>
    /\ active_matches = << >>
    /\ repair_resets = << >>
    /\ finalizedAs = None

SeqNext ==
    \/ \E p \in SeqProcs, present \in SUBSET RequiredFields : SubmitInvalid(p, present)
    \/ \E p \in SeqProcs, judge_id \in Judges, sub \in SeqPayloads, ids \in SeqIds :
            SubmitGetOrCreate(p, judge_id, sub, ids[1], ids[2])
    \/ \E p \in SeqProcs : SubmitAdd(p)
    \/ \E p \in SeqProcs, outcome \in ChallongeOutcomes,
          chat \in ChatOutcomesFor(events) :
            SubmitFinalize(p, outcome, chat)
    \/ \E p \in SeqProcs, judge_id \in Judges : DeleteGet(p, judge_id)
    \/ \E p \in SeqProcs : DeleteRemove(p)

SpecSeq == SeqInit /\ [][SeqNext]_vars

-----------------------------------------------------------------------------
(* Loss and recovery where the requests differ in the tournament they name:
   the requests of the configured specification, without Event rows, the loss
   of the row, and the detail read *)

SeqRecoveryInit == SeqInit /\ events = << >>

SeqRecoveryNext ==
    \/ SeqNext
    \/ AdminDelete
    \/ \E p \in SeqProcs, tournament_id \in SeqTournaments \cup { "" } :
            DetailGet(p, tournament_id)
    \/ \E p \in SeqProcs : DetailRecreate(p)

SpecSeqRecovery == SeqRecoveryInit /\ [][SeqRecoveryNext]_vars

-----------------------------------------------------------------------------
(* Four judges: two judges have submitted, two more judges submit, and any of
   the four is deleted, by two handlers working on the same match *)

FirstJudges == { "j1", "j2" }

LateJudges == { "j3", "j4" }

FourPayload == Submission(Some(Std(3, 5, 3)), FALSE, None)

(* the row after j1 and then j2 have submitted; requests are counted from here *)
FourInit ==
    /\ db = Some(add_judge_score(add_judge_score(NewRow("t1", 1, 2), "j1", FourPayload),
                                 "j2", FourPayload))
    /\ pc = [ p \in Procs |-> "idle" ]
    /\ local = [ p \in Procs |-> None ]
    /\ req = [ p \in Procs |-> NoReq ]
    /\ resp = NoResp
    /\ attachments = [ t \in Tournaments |-> << >> ]
    /\ computed = None
    /\ finalizeRuns = 0
    /\ recoveries = 0
    /\ nreq = 0
    /\ events = << >>
    /\ outbound = << >>
    /\ active_matches = << >>
    /\ repair_resets = << >>
    /\ finalizedAs = None

FourNext ==
    \/ \E p \in Procs, judge_id \in LateJudges :
            SubmitGetOrCreate(p, judge_id, FourPayload, "t1", <<1, 2>>)
    \/ \E p \in Procs : SubmitAdd(p)
    \/ \E p \in Procs, chat \in ChatOutcomesFor(events) : SubmitFinalize(p, "ok", chat)
    \/ \E p \in Procs, judge_id \in FirstJudges \cup LateJudges : DeleteGet(p, judge_id)
    \/ \E p \in Procs : DeleteRemove(p)

SpecFour == FourInit /\ [][FourNext]_vars

-----------------------------------------------------------------------------
(* Notified specification: one event with a webhook lists the tournament, and
   the judges send points for A, no points for A, or a knockout vote for B *)

ChatPayloads ==
    { Submission(Some(Std(3, 5, 3)), FALSE, None),
      Submission(Some(Std(0, 0, 0)), FALSE, None),
      Submission(None, TRUE, Some(2)) }

ChatInit == SeqInit /\ events = << Event("e1", << "t1" >>, "hook1") >>

ChatNext ==
    \/ \E p \in SeqProcs, judge_id \in Judges, sub \in ChatPayloads :
            SubmitGetOrCreate(p, judge_id, sub, "t1", <<1, 2>>)
    \/ \E p \in SeqProcs : SubmitAdd(p)
    \/ \E p \in SeqProcs, outcome \in ChallongeOutcomes, chat \in ChatOutcomesFor(events) :
            SubmitFinalize(p, outcome, chat)
    \/ \E p \in SeqProcs, judge_id \in Judges : DeleteGet(p, judge_id)
    \/ \E p \in SeqProcs : DeleteRemove(p)

SpecChat == ChatInit /\ [][ChatNext]_vars

-----------------------------------------------------------------------------
(* Registries: the active match of a tournament and the repair timer resets
   of the robots, per event.  The time of a write is the number of the
   request. *)

(* the positions of the rows with the given key *)
ActiveRowsOf(table, event_id, tournament_id) ==
    { i \in 1..Len(table) :
        table[i].event_id = event_id /\ table[i].tournament_id = tournament_id }

RepairRowsOf(table, event_id, robot_name) ==
    { i \in 1..Len(table) :
        table[i].event_id = event_id /\ table[i].robot_name = robot_name }

(* variant: a row is created whether or not the key exists *)
set_active_creating(table, event_id, tournament_id, match_id, now) ==
    Append(table, [ event_id |-> event_id, tournament_id |-> tournament_id,
                    match_id |-> match_id, started_at |-> now ])

(* views.py:469-473: ActiveMatch.objects.update_or_create(event_id,
   tournament_id, defaults={'match_id'}); started_at is auto_now *)
set_active(table, event_id, tournament_id, match_id, now) ==
    LET found == ActiveRowsOf(table, event_id, tournament_id)
    IN  IF found = {}
        THEN Append(table, [ event_id |-> event_id, tournament_id |-> tournament_id,
                             match_id |-> match_id, started_at |-> now ])
        ELSE [ i \in 1..Len(table) |->
                 IF i \in found
                 THEN [ table[i] EXCEPT !.match_id = match_id, !.started_at = now ]
                 ELSE table[i] ]

(* views.py:489-492: ActiveMatch.objects.filter(event_id, tournament_id).delete() *)
clear_active(table, event_id, tournament_id) ==
    SelectSeq(table, LAMBDA row :
        ~(row.event_id = event_id /\ row.tournament_id = tournament_id))

(* views.py:522-525: RepairTimerReset.objects.update_or_create(event_id,
   robot_name); reset_at is auto_now *)
reset_repair(table, event_id, robot_name, now) ==
    LET found == RepairRowsOf(table, event_id, robot_name)
    IN  IF found = {}
        THEN Append(table, [ event_id |-> event_id, robot_name |-> robot_name,
                             reset_at |-> now ])
        ELSE [ i \in 1..Len(table) |->
                 IF i \in found THEN [ table[i] EXCEPT !.reset_at = now ]
                 ELSE table[i] ]

(* views.py:540-543: RepairTimerReset.objects.filter(event_id, robot_name).delete() *)
clear_repair(table, event_id, robot_name) ==
    SelectSeq(table, LAMBDA row :
        ~(row.event_id = event_id /\ row.robot_name = robot_name))

RegistryResp(kind, status) ==
    [ NoResp EXCEPT !.kind = kind, !.status = status, !.success = (status = 200) ]

(* the other variables of a registry request *)
RegistryFrame ==
    UNCHANGED <<db, pc, local, req, attachments, computed, finalizeRuns, recoveries,
                events, outbound, finalizedAs>>

(* POST events/<event_id>/active-match *)
SetActiveMatch(event_id, tournament_id, match_id, valid) ==
    /\ nreq < MaxReqs
    /\ nreq' = nreq + 1
    /\ IF valid
       THEN /\ active_matches' =
                 set_active(active_matches, event_id, tournament_id, match_id, nreq')
            /\ resp' = RegistryResp("set_active_match", 200)
       ELSE /\ active_matches' = active_matches
            /\ resp' = RegistryResp("set_active_match", 400)
    /\ UNCHANGED repair_resets
    /\ RegistryFrame

(* DELETE events/<event_id>/active-match/<tournament_id> *)
ClearActiveMatch(event_id, tournament_id) ==
    /\ nreq < MaxReqs
    /\ nreq' = nreq + 1
    /\ active_matches' = clear_active(active_matches, event_id, tournament_id)
    /\ resp' = RegistryResp("clear_active_match", 200)
    /\ UNCHANGED repair_resets
    /\ RegistryFrame

(* POST events/<event_id>/repair-reset *)
ResetRepairTimer(event_id, robot_name, valid) ==
    /\ nreq < MaxReqs
    /\ nreq' = nreq + 1
    /\ IF valid
       THEN /\ repair_resets' = reset_repair(repair_resets, event_id, robot_name, nreq')
            /\ resp' = RegistryResp("reset_repair_timer", 200)
       ELSE /\ repair_resets' = repair_resets
            /\ resp' = RegistryResp("reset_repair_timer", 400)
    /\ UNCHANGED active_matches
    /\ RegistryFrame

(* DELETE events/<event_id>/repair-reset/<robot_name> *)
ClearRepairReset(event_id, robot_name) ==
    /\ nreq < MaxReqs
    /\ nreq' = nreq + 1
    /\ repair_resets' = clear_repair(repair_resets, event_id, robot_name)
    /\ resp' = RegistryResp("clear_repair_reset", 200)
    /\ UNCHANGED active_matches
    /\ RegistryFrame

(* the keys and values the registry requests use *)
ActiveKeys == { << "e1", "t1" >>, << "e1", "t10" >>, << "e2", "t1" >> }

MatchIds == { "m1", "m2" }

RepairKeys == { << "e1", "Robot1" >>, << "e2", "Robot1" >>, << "e1", "Robot2" >> }

RegNext ==
    \/ \E k \in ActiveKeys, match_id \in MatchIds, valid \in BOOLEAN :
            SetActiveMatch(k[1], k[2], match_id, valid)
    \/ \E k \in ActiveKeys : ClearActiveMatch(k[1], k[2])
    \/ \E k \in RepairKeys, valid \in BOOLEAN : ResetRepairTimer(k[1], k[2], valid)
    \/ \E k \in RepairKeys : ClearRepairReset(k[1], k[2])

SpecReg == Init /\ [][RegNext]_vars

-----------------------------------------------------------------------------
(* Aggregator specification: calculate_result on records built up one
   submission at a time, each by a new judge *)

AggSubmissions ==
    { Submission(Some(m), FALSE, None) : m \in ScoreMaps }
    \cup { Submission(None, TRUE, Some(w)) : w \in KoWinnerIds }
    \cup { Submission(None, FALSE, None),
           Submission(None, TRUE, None),
           Submission(Some(Std(3, 5, 3)), TRUE, Some(2)) }

AggPairs == { <<1, 2>>, <<0, 2>> }

AggInit ==
    /\ \E ab \in AggPairs : db = Some(NewRow("t1", ab[1], ab[2]))
    /\ pc = [ p \in Procs |-> "idle" ]
    /\ local = [ p \in Procs |-> None ]
    /\ req = [ p \in Procs |-> NoReq ]
    /\ resp = NoResp
    /\ attachments = [ t \in Tournaments |-> << >> ]
    /\ computed = None
    /\ finalizeRuns = 0
    /\ recoveries = 0
    /\ nreq = 0
    /\ events = << >>
    /\ outbound = << >>
    /\ active_matches = << >>
    /\ repair_resets = << >>
    /\ finalizedAs = None

AggSubmit(sub) ==
    /\ judge_count(Val(db)) < MaxSubs
    /\ db' = Some(add_judge_score(Val(db), ToString(judge_count(Val(db)) + 1), sub))
    /\ computed' = Some(calculate_result(Val(db')))
    /\ UNCHANGED <<pc, local, req, resp, attachments, finalizeRuns, recoveries, nreq, events, outbound,
                   active_matches, repair_resets, finalizedAs>>

AggNext == \E sub \in AggSubmissions : AggSubmit(sub)

SpecAgg == AggInit /\ [][AggNext]_vars

-----------------------------------------------------------------------------
(* Properties *)

Stored == Val(db)
StoredFinalized == ~IsNone(db) /\ Stored.finalized
Quiet == \A p \in Procs : pc[p] = "idle"

(* C1: a submit whose loaded record is finalized is answered with an error
   and leaves the stored row as it was *)
C1_SubmitOnFinalizedRejected ==
    [][ \A p \in Procs :
          (pc[p] = "add" /\ Val(local[p]).finalized /\ pc'[p] # "add")
             => (db' = db /\ resp'.kind = "submit" /\ resp'.status = 400 /\ ~resp'.success)
      ]_vars

(* C2: once the stored row is finalized its judges mapping never changes *)
C2_SubmissionsFrozen ==
    [][ StoredFinalized => (~IsNone(db') /\ Val(db').judges = Stored.judges) ]_vars

(* C3: once the stored finalized flag is true it stays true *)
C3_FinalizedMonotonic ==
    [][ StoredFinalized => (~IsNone(db') /\ Val(db').finalized) ]_vars

(* C4: once the stored result is non-null its value never changes *)
C4_ResultWrittenOnce ==
    [][ (~IsNone(db) /\ ~IsNone(Stored.result))
           => (~IsNone(db') /\ Val(db').result = Stored.result) ]_vars

(* C5: in every stored state the result is non-null exactly if finalized is
   true, including rows recreated from an attachment by the detail read *)
C5_ResultIffFinalized ==
    ~IsNone(db) => (~IsNone(Stored.result) <=> Stored.finalized)

(* C5 witness: a row recreated by the detail read, finalized and with a result *)
C5_Witness ==
    /\ recoveries >= 1
    /\ StoredFinalized
    /\ ~IsNone(Stored.result)
    /\ resp.kind = "details"

(* C6: the finalization of a match is executed at most once, also when two
   overlapping submits both see the quorum on a not yet finalized record *)
C6_SingleFinalization == finalizeRuns <= 1

(* C7: no stored submission is lost except by its judge's delete, and a
   finalization computes the result from all the submissions stored then *)
C7_NoSubmissionLost ==
    [][ ~IsNone(db) =>
          /\ \A j \in DictKeys(Stored.judges) :
                \/ ~IsNone(db') /\ DictHas(Val(db').judges, j)
                \/ \E p \in Procs : pc[p] = "remove" /\ pc'[p] = "idle" /\ req[p].judge_id = j
          /\ \A p \in Procs :
                (pc[p] = "finalize" /\ pc'[p] = "idle")
                   => DictKeys(Stored.judges) \subseteq DictKeys(Val(local[p]).judges)
      ]_vars

(* knockout votes of the stored submissions for identifier w: isKnockout is
   true and knockoutWinner is w *)
KnockoutVotesFor(row, w) ==
    Cardinality({ i \in 1..Len(row.judges) :
                    row.judges[i][2].isKO /\ row.judges[i][2].koWinnerId = Some(w) })

(* the Knockout result for winner w: 33 to the winner's side, 0 to the other *)
KnockoutResultFor(row, w) ==
    [ winnerId |-> w,
      winMethod |-> "ko",
      scoreA |-> IF w = row.competitor_a_id THEN 33 ELSE 0,
      scoreB |-> IF w = row.competitor_a_id THEN 0 ELSE 33,
      koVotes |-> KnockoutVotesFor(row, w) ]

Competitors(row) == { row.competitor_a_id, row.competitor_b_id }

C9_Original ==
    (~IsNone(computed) /\ Val(computed).winMethod = "points") =>
        /\ Val(computed).scoreA = Val(computed).scoreB
              => Val(computed).winnerId = Stored.competitor_a_id
        /\ Val(computed).winnerId = Stored.competitor_b_id
              => Val(computed).scoreB > Val(computed).scoreA

(* C9 amended: equal point totals (0-0 included) give method Points and winner
   B; A wins only when A's total is strictly greater *)
C9_TieGoesToB ==
    (~IsNone(computed) /\ Val(computed).winMethod = "points") =>
        /\ Val(computed).scoreA = Val(computed).scoreB
              => Val(computed).winnerId = Stored.competitor_b_id
        /\ Val(computed).winnerId = Stored.competitor_a_id
              => Val(computed).scoreA > Val(computed).scoreB
        /\ Val(computed).winnerId \in Competitors(Stored)

(* C9 witness: a points result with equal nonzero totals *)
C9_Witness ==
    /\ ~IsNone(computed)
    /\ Val(computed).winMethod = "points"
    /\ Val(computed).scoreA = Val(computed).scoreB
    /\ Val(computed).scoreA > 0
    /\ Val(computed).winnerId = Stored.competitor_b_id

AllPointOnly(row) ==
    \A i \in 1..Len(row.judges) :
        ~IsNone(row.judges[i][2].scores) /\ ~row.judges[i][2].isKO

AllScoresNonEmpty(row) ==
    \A i \in 1..Len(row.judges) : DOMAIN Val(row.judges[i][2].scores) # {}

(* C10 as stated: if every judge sent a non-null scores mapping and no
   knockout vote, scoreA + scoreB = 11 x number of judges *)
C10_Original ==
    (~IsNone(computed) /\ AllPointOnly(Stored)) =>
        Val(computed).scoreA + Val(computed).scoreB = 11 * judge_count(Stored)

(* C10 amended: if every judge sent a non-empty scores mapping and no
   knockout vote, scoreA + scoreB = 11 x number of judges *)
C10_PointSymmetry ==
    (~IsNone(computed) /\ AllPointOnly(Stored) /\ AllScoresNonEmpty(Stored)) =>
        Val(computed).scoreA + Val(computed).scoreB = 11 * judge_count(Stored)

(* C10 witness: three point-only judges, one above 11 and one with a category
   of its own *)
C10_Witness ==
    /\ ~IsNone(computed)
    /\ judge_count(Stored) = 3
    /\ AllPointOnly(Stored)
    /\ AllScoresNonEmpty(Stored)
    /\ \E i \in 1..3 : "speed" \in DOMAIN Val(Stored.judges[i][2].scores)
    /\ \E i \in 1..3 : judge_score_a(Val(Stored.judges[i][2].scores)) > 11
    /\ Val(computed).scoreA + Val(computed).scoreB = 33

RECURSIVE SumOfMap(_, _)
SumOfMap(m, keys) ==
    IF keys = {} THEN 0
    ELSE LET k == CHOOSE x \in keys : TRUE
         IN  m[k] + SumOfMap(m, keys \ {k})

(* the sum of all category point values of a scores mapping *)
CategorySum(m) == SumOfMap(m, DOMAIN m)

(* the submissions that carry scores (a non-empty scores mapping) *)
ScoredSubs(row) ==
    SelectSeq(DictValues(row.judges), LAMBDA j : Truthy_scores(j.scores))

(* C11: in a Points result scoreA is the sum, over the judges with scores, of
   all category point values of the judge's mapping, whatever the category
   identifiers, and scoreB the sum of 11 minus that *)
C11_AllCategoriesCount ==
    (~IsNone(computed) /\ Val(computed).winMethod = "points") =>
        LET subs == ScoredSubs(Stored)
        IN  /\ Val(computed).scoreA =
                  SumSeq([ i \in 1..Len(subs) |-> CategorySum(Val(subs[i].scores)) ])
            /\ Val(computed).scoreB =
                  SumSeq([ i \in 1..Len(subs) |-> 11 - CategorySum(Val(subs[i].scores)) ])

-----------------------------------------------------------------------------
(* Steps of the request handlers, recognised in a pair of states *)

(* handler p runs add_judge_score and its save in this step *)
AddStep(p) == pc[p] = "add" /\ pc'[p] # "add"

(* handler p runs the finalization in this step *)
FinalizeStep(p) == pc[p] = "finalize" /\ pc'[p] = "idle"

(* handler p runs remove_judge_score and its save in this step *)
RemoveStep(p) == pc[p] = "remove" /\ pc'[p] = "idle"

(* a delete request is answered in the step in which it arrives *)
DeleteAnswered == nreq' = nreq + 1 /\ pc' = pc /\ resp'.kind = "delete"

(* a delete request arrives and goes on to remove_judge_score *)
DeleteProceeds == \E p \in Procs : pc[p] = "idle" /\ pc'[p] = "remove"

(* C13: a submit on a record it read as not finalized whose save leaves 3 or
   more distinct judges goes on to finalize in the same call, and the
   finalization stores the computed result and answers finalized = true with
   it; a submit whose save leaves fewer than 3 judges leaves the record not
   finalized and answers waiting for N = 3 - count >= 1 more judges *)
C13_QuorumDecision ==
    [][ \A p \in Procs :
          /\ AddStep(p) =>
                LET count == judge_count(Val(db'))
                IN  /\ (~Val(local[p]).finalized /\ count >= 3) =>
                            /\ pc'[p] = "finalize"
                            /\ local'[p] = db'
                    /\ pc'[p] = "finalize" => count >= 3
                    /\ count < 3 =>
                            /\ ~Val(db').finalized
                            /\ pc'[p] = "idle"
                            /\ resp'.kind = "submit" /\ resp'.success
                            /\ ~resp'.finalized /\ IsNone(resp'.result)
                            /\ resp'.waitingFor = 3 - count
                            /\ resp'.waitingFor >= 1
          /\ FinalizeStep(p) =>
                /\ Val(db').finalized
                /\ Val(db').judges = Val(local[p]).judges
                /\ Val(db').result = Some(calculate_result(Val(local[p])))
                /\ resp'.kind = "submit" /\ resp'.success /\ resp'.finalized
                /\ resp'.result = Val(db').result ]_vars

C13_Witness ==
    /\ Quiet
    /\ StoredFinalized
    /\ resp.kind = "submit" /\ resp.finalized /\ resp.result = Stored.result
    /\ judge_count(Stored) = 3

(* the entries of the judges other than judge_id *)
OtherEntries(judges, judge_id) ==
    SelectSeq(judges, LAMBDA item : item[1] # judge_id)

(* C14: a submit of a judge who holds an entry on the not finalized record the
   call read replaces that entry in the stored record, the stored record keeps
   its set of judges and every other entry, and no error is answered; a
   finalization always stores entries of 3 or more distinct judges *)
C14_ResubmissionFrame ==
    [][ \A p \in Procs :
          /\ ( /\ AddStep(p)
               /\ ~Val(local[p]).finalized
               /\ DictHas(Val(local[p]).judges, req[p].judge_id) ) =>
                /\ DictGet(Val(db').judges, req[p].judge_id) = req[p].sub
                /\ DictKeys(Val(db').judges) = DictKeys(Val(db).judges)
                /\ OtherEntries(Val(db').judges, req[p].judge_id)
                      = OtherEntries(Val(db).judges, req[p].judge_id)
                /\ pc'[p] = "idle" => resp'.success
          /\ FinalizeStep(p) => Cardinality(DictKeys(Val(db').judges)) >= 3 ]_vars

(* C15: a delete request that arrives at a finalized record is refused with
   'Match already finalized' (400) and nothing of the record changes *)
C15_DeleteOnFinalizedRefused ==
    [][ StoredFinalized =>
          /\ ~DeleteProceeds
          /\ DeleteAnswered =>
                /\ resp'.status = 400
                /\ resp'.error = "Match already finalized"
                /\ db' = db ]_vars

C15_Witness ==
    /\ StoredFinalized
    /\ resp.kind = "delete" /\ resp.error = "Match already finalized"

(* C16: a delete for a judge who holds an entry on the not finalized record
   the call read removes that entry from the stored record and leaves the
   other entries, finalized and result of the stored record as they were *)
C16_DeleteFrame ==
    [][ \A p \in Procs :
          RemoveStep(p) =>
            /\ ~DictHas(Val(db').judges, req[p].judge_id)
            /\ Val(db').judges = OtherEntries(Val(db).judges, req[p].judge_id)
            /\ Val(db').finalized = Val(db).finalized
            /\ Val(db').result = Val(db).result
            /\ resp'.kind = "delete" /\ resp'.success ]_vars

(* a delete answered in the step of its arrival at a stored, not finalized
   record: the judge holds no entry *)
DeleteOfAbsentEntry ==
    DeleteAnswered /\ ~IsNone(db) /\ ~StoredFinalized

(* C17 as stated: the delete for a judge without an entry on an existing, not
   finalized record gives false as a non-error outcome, record unchanged *)
C17_Original ==
    [][ DeleteOfAbsentEntry =>
          /\ resp'.status = 200 /\ ~resp'.success /\ resp'.error = ""
          /\ db' = db ]_vars

(* C17: the delete for a judge without an entry on an existing, not finalized
   record is answered with the error 'Score not found' (404), record
   unchanged *)
C17_AbsentEntryNotFound ==
    [][ DeleteOfAbsentEntry =>
          /\ resp'.status = 404 /\ ~resp'.success
          /\ resp'.error = "Score not found"
          /\ db' = db ]_vars

C17_Witness ==
    /\ ~IsNone(db) /\ ~StoredFinalized
    /\ judge_count(Stored) >= 1
    /\ resp.kind = "delete" /\ resp.status = 404

-----------------------------------------------------------------------------
(* Properties of the configured specification *)

(* C12: a stored result has scoreA >= 0 and scoreB >= 0 *)
C12_ScoresNonNegative ==
    (~IsNone(db) /\ ~IsNone(Stored.result)) =>
        /\ Val(Stored.result).scoreA >= 0
        /\ Val(Stored.result).scoreB >= 0

(* C18: once the row exists, its tournament and competitor identifiers never
   change, whatever identifiers later requests carry *)
C18_IdentifiersFixed ==
    [][ ~IsNone(db) =>
          /\ ~IsNone(db')
          /\ Val(db').tournament_id = Val(db).tournament_id
          /\ Val(db').competitor_a_id = Val(db).competitor_a_id
          /\ Val(db').competitor_b_id = Val(db).competitor_b_id ]_vars

(* a finalizing submit that named tournament t10 has acted on a record of t1 *)
C18_Witness ==
    /\ StoredFinalized
    /\ Stored.tournament_id = "t1"
    /\ Stored.competitor_a_id = 1
    /\ \E i \in 1..Len(outbound) :
          outbound[i].call = "update_match" /\ outbound[i].target = "t10"

(* no call to update_match succeeded *)
UpdateFailed(calls) ==
    ~\E i \in 1..Len(calls) : calls[i].call = "update_match" /\ calls[i].ok

(* C19: a finalization whose bracket update fails, or is never made because
   the client cannot be built, stores the finalized record with the computed
   result and answers success, finalized = true with that result; the failure
   shows only in challongeResponse *)
C19_BracketFailureAdvisory ==
    [][ \A p \in Procs :
          (FinalizeStep(p) /\ UpdateFailed(outbound')) =>
            LET score == Val(local[p])
                result == calculate_result(score)
            IN  /\ db' = Some(Finalized(score, result))
                /\ resp' = FinalizedResp(Val(db'), result, "error") ]_vars

C19_Witness ==
    /\ StoredFinalized
    /\ resp.kind = "submit" /\ resp.finalized /\ resp.challongeResponse = "error"
    /\ resp.result = Stored.result
    /\ UpdateFailed(outbound)

(* the posts to the chat among the calls *)
ChatPosts(calls) == SelectSeq(calls, LAMBDA c : c.call = "discord_post")

(* C20: a finalization attempts no chat post when no event is found for the
   record's tournament or the event has no webhook; whatever the name lookup
   and the post do, the finalized record with the computed result is stored
   and the answer is success, finalized = true with that result *)
C20_ChatNeverChangesOutcome ==
    [][ \A p \in Procs :
          FinalizeStep(p) =>
            LET score == Val(local[p])
                result == calculate_result(score)
                event == FindEvent(events, score.tournament_id)
            IN  /\ (IsNone(event) \/ Val(event).discord_webhook_url = "") =>
                      ChatPosts(outbound') = << >>
                /\ Len(ChatPosts(outbound')) <= 1
                /\ db' = Some(Finalized(score, result))
                /\ resp' = FinalizedResp(Val(db'), result, resp'.challongeResponse) ]_vars

(* a finalization whose chat post failed after the name lookup failed *)
C20_Witness ==
    /\ StoredFinalized
    /\ resp.kind = "submit" /\ resp.finalized /\ resp.result = Stored.result
    /\ \E i \in 1..Len(outbound) :
          /\ outbound[i].call = "discord_post"
          /\ ~outbound[i].ok
          /\ outbound[i].winner \in { "Unknown", "None" }

-----------------------------------------------------------------------------
(* Properties of requests that do not overlap *)

(* how many of the calls are calls of the given kind *)
CallCount(calls, call) == Len(SelectSeq(calls, LAMBDA c : c.call = call))

(* C21: over requests that do not overlap the finalization block runs at most
   once; a stored result is never replaced; update_match,
   create_match_attachment and the chat post are each made at most once and at
   most one breakdown is attached *)
C21_FinalizationAtMostOnce ==
    /\ [] ( /\ finalizeRuns <= 1
            /\ CallCount(outbound, "update_match") <= 1
            /\ CallCount(outbound, "create_match_attachment") <= 1
            /\ CallCount(outbound, "discord_post") <= 1
            /\ \A t \in DOMAIN attachments : Len(attachments[t]) <= 1
            /\ Cardinality({ t \in DOMAIN attachments : attachments[t] # << >> }) <= 1 )
    /\ [][ (~IsNone(db) /\ ~IsNone(Val(db).result)) =>
              (~IsNone(db') /\ Val(db').result = Val(db).result) ]_vars

(* a submit was answered after the finalization without finalizing again *)
C21_Witness ==
    /\ Quiet
    /\ StoredFinalized
    /\ finalizeRuns = 1
    /\ judge_count(Stored) >= 3
    /\ resp.kind = "submit" /\ resp.success /\ ~resp.finalized

-----------------------------------------------------------------------------
(* Order specification: the aggregator on records of fewer kinds of
   submissions, among them knockout votes for three identifiers *)

OrderSubmissions ==
    { Submission(None, TRUE, Some(1)),
      Submission(None, TRUE, Some(2)),
      Submission(None, TRUE, Some(3)),
      Submission(Some(Std(3, 5, 3)), FALSE, None),
      Submission(Some(Std(0, 0, 0)), FALSE, None),
      Submission(Some(Std(3, 5, 3)), TRUE, Some(2)) }

OrderNext == \E sub \in OrderSubmissions : AggSubmit(sub)

SpecOrder == AggInit /\ [][OrderNext]_vars

-----------------------------------------------------------------------------
(* Properties of the aggregator: order of the submissions *)

(* the record with its entries in the order f, a permutation of the positions *)
Reordered(row, f) ==
    [ row EXCEPT !.judges = [ k \in 1..Len(row.judges) |-> row.judges[f[k]] ] ]

(* every order of the entries gives the result of the record *)
OrderIndependent(row) ==
    LET result == calculate_result(row)
    IN  \A f \in Permutations(1..Len(row.judges)) :
            calculate_result(Reordered(row, f)) = result

(* the identifiers with 2 or more counted knockout votes *)
MajorityIds(row) ==
    { w \in KoWinnerIds \ {0} : KnockoutVotesFor(row, w) >= 2 }

(* C22 as stated: the result computed for a record is calculate_result of the
   record, and is the same for every order of the submissions, for records of
   any size *)
C22_Original ==
    ~IsNone(computed) =>
        /\ Val(computed) = calculate_result(Stored)
        /\ OrderIndependent(Stored)

(* C22 amended: the same, for records in which at most one identifier has 2 or
   more knockout votes (every record of up to 3 submissions is one) *)
C22_OrderIndependentMajority ==
    (~IsNone(computed) /\ Cardinality(MajorityIds(Stored)) <= 1) =>
        /\ Val(computed) = calculate_result(Stored)
        /\ OrderIndependent(Stored)

(* a knockout decided by the second and fourth of four submissions *)
C22_Witness ==
    /\ ~IsNone(computed)
    /\ judge_count(Stored) = 4
    /\ Val(computed).winMethod = "ko"
    /\ ~Stored.judges[1][2].isKO
    /\ Stored.judges[2][2].isKO
    /\ ~Stored.judges[3][2].isKO
    /\ Stored.judges[4][2].isKO

-----------------------------------------------------------------------------
(* Properties of the validation *)

(* a submit request is answered in the step in which it arrives *)
SubmitAnswered == nreq' = nreq + 1 /\ pc' = pc /\ resp'.kind = "submit"

(* C23: a submit request that lacks a required field is answered with the
   validation error (400) in the step of its arrival; no row is created and
   an existing row is not changed *)
C23_InvalidSubmitNoMutation ==
    [][ SubmitAnswered =>
          /\ resp'.status = 400 /\ ~resp'.success
          /\ db' = db
          /\ attachments' = attachments /\ outbound' = outbound ]_vars

(* the first request was invalid and has left no row *)
C23_Witness ==
    /\ IsNone(db)
    /\ nreq >= 1
    /\ resp.kind = "submit" /\ resp.status = 400

-----------------------------------------------------------------------------
(* Properties of the registries *)

(* the rows of the other keys *)
OtherActive(table, event_id, tournament_id) ==
    SelectSeq(table, LAMBDA row :
        ~(row.event_id = event_id /\ row.tournament_id = tournament_id))

OtherRepair(table, event_id, robot_name) ==
    SelectSeq(table, LAMBDA row :
        ~(row.event_id = event_id /\ row.robot_name = robot_name))

(* the rows of one key *)
ActiveOf(table, event_id, tournament_id) ==
    SelectSeq(table, LAMBDA row :
        row.event_id = event_id /\ row.tournament_id = tournament_id)

RepairOf(table, event_id, robot_name) ==
    SelectSeq(table, LAMBDA row :
        row.event_id = event_id /\ row.robot_name = robot_name)

(* C24: each registry holds at most one row per key; a valid set leaves exactly
   the new entry under its key, a clear leaves none under its key, and both
   leave the rows of the other keys and the other registry as they were *)
C24_RegistryOnePerKey ==
    /\ [] ( /\ \A k \in ActiveKeys : Len(ActiveOf(active_matches, k[1], k[2])) <= 1
            /\ \A k \in RepairKeys : Len(RepairOf(repair_resets, k[1], k[2])) <= 1 )
    /\ [][ /\ \A k \in ActiveKeys, match_id \in MatchIds :
                SetActiveMatch(k[1], k[2], match_id, TRUE) =>
                  /\ ActiveOf(active_matches', k[1], k[2]) =
                        << [ event_id |-> k[1], tournament_id |-> k[2],
                             match_id |-> match_id, started_at |-> nreq' ] >>
                  /\ OtherActive(active_matches', k[1], k[2])
                        = OtherActive(active_matches, k[1], k[2])
                  /\ repair_resets' = repair_resets
           /\ \A k \in ActiveKeys :
                ClearActiveMatch(k[1], k[2]) =>
                  /\ ActiveOf(active_matches', k[1], k[2]) = << >>
                  /\ OtherActive(active_matches', k[1], k[2])
                        = OtherActive(active_matches, k[1], k[2])
                  /\ repair_resets' = repair_resets
           /\ \A k \in RepairKeys :
                ResetRepairTimer(k[1], k[2], TRUE) =>
                  /\ RepairOf(repair_resets', k[1], k[2]) =
                        << [ event_id |-> k[1], robot_name |-> k[2], reset_at |-> nreq' ] >>
                  /\ OtherRepair(repair_resets', k[1], k[2])
                        = OtherRepair(repair_resets, k[1], k[2])
                  /\ active_matches' = active_matches
           /\ \A k \in RepairKeys :
                ClearRepairReset(k[1], k[2]) =>
                  /\ RepairOf(repair_resets', k[1], k[2]) = << >>
                  /\ OtherRepair(repair_resets', k[1], k[2])
                        = OtherRepair(repair_resets, k[1], k[2])
                  /\ active_matches' = active_matches ]_vars

(* the active match of a key was set a second time, next to another key *)
C24_Witness ==
    /\ Len(active_matches) = 2
    /\ \E i \in 1..2 : active_matches[i].started_at = 3 /\ active_matches[i].match_id = "m2"
    /\ \E i \in 1..2 : active_matches[i].started_at = 2
    /\ nreq = 3

-----------------------------------------------------------------------------
(* Properties of the best-effort steps, the recovery and the stored values *)

(* C25: every finalization attempts the attachment write once, whether the
   bracket update succeeded or failed, and attempts the chat post when an
   event with a webhook is found, whether either of the two failed *)
C25_BestEffortIndependent ==
    [][ \A p \in Procs :
          FinalizeStep(p) =>
            LET event == FindEvent(events, Val(local[p]).tournament_id)
            IN  /\ CallCount(outbound', "create_match_attachment") = 1
                /\ (~IsNone(event) /\ Val(event).discord_webhook_url # "") =>
                      CallCount(outbound', "discord_post") = 1 ]_vars

(* the event lists the tournament as one of its elements *)
ListsExactly(e, tournament_id) ==
    \E i \in 1..Len(e.tournaments) : e.tournaments[i] = tournament_id

(* C26: every chat post of a finalization goes to the webhook of an event
   whose tournament list has the record's tournament_id as an element *)
C26_ChatOnlyToListingEvent ==
    [][ \A p \in Procs :
          FinalizeStep(p) =>
            \A i \in 1..Len(outbound') :
              outbound'[i].call = "discord_post" =>
                \E k \in 1..Len(events) :
                  /\ ListsExactly(events[k], Val(db').tournament_id)
                  /\ events[k].discord_webhook_url = outbound'[i].target ]_vars

(* the breakdown of the finalization was attached to some tournament's match *)
BreakdownWritten(row) ==
    \E t \in DOMAIN attachments :
       \E i \in 1..Len(attachments[t]) :
          attachments[t][i] = Breakdown(row, Val(row.result))

(* C27: when the breakdown of a finalization was written and the row is gone,
   a detail read that names the tournament_id of the finalized record stores
   a finalized row with the submissions, competitor ids and result of the
   record as finalized *)
C27_RecoveryRoundTrip ==
    [][ \A p \in Procs :
          ( /\ pc[p] = "recreate" /\ pc'[p] = "idle"
            /\ IsNone(db)
            /\ ~IsNone(finalizedAs)
            /\ BreakdownWritten(Val(finalizedAs))
            /\ req[p].tournament_id = Val(finalizedAs).tournament_id )
          => /\ ~IsNone(db')
             /\ Val(db').finalized
             /\ Val(db').judges = Val(finalizedAs).judges
             /\ Val(db').competitor_a_id = Val(finalizedAs).competitor_a_id
             /\ Val(db').competitor_b_id = Val(finalizedAs).competitor_b_id
             /\ Val(db').result = Val(finalizedAs).result ]_vars

(* C28: every stored submission with isKO true has a koWinnerId that is not
   None *)
C28_KnockoutHasWinner ==
    ~IsNone(db) =>
       \A i \in 1..Len(Stored.judges) :
          Stored.judges[i][2].isKO => ~IsNone(Stored.judges[i][2].koWinnerId)

(* C29: when no handler is at work, a row that is not finalized holds fewer
   than 3 judges *)
C29_NoRestAtQuorum ==
    (Quiet /\ ~IsNone(db) /\ ~Stored.finalized) => judge_count(Stored) < QUORUM

(* C30: the winnerId of the result of a record with a quorum is one of the
   record's two competitor ids, and the score of the winner's side is at
   least the score of the other side *)
C30_WinnerIsCompetitor ==
    (~IsNone(db) /\ ~IsNone(computed) /\ judge_count(Stored) >= QUORUM) =>
        LET result == Val(computed)
        IN  /\ result.winnerId \in { Stored.competitor_a_id, Stored.competitor_b_id }
            /\ result.winnerId = Stored.competitor_a_id => result.scoreA >= result.scoreB
            /\ result.winnerId = Stored.competitor_b_id => result.scoreB >= result.scoreA

-----------------------------------------------------------------------------
(* Properties of what a finalization sends and answers *)

(* the calls to the bracket provider among the calls *)
BracketCalls(calls) ==
    SelectSeq(calls, LAMBDA c : c.call \in { "update_match", "create_match_attachment" })

(* C31: the bracket update and the attachment write of a finalization name
   the tournament_id stored on the record *)
C31_BracketCallsForStoredTournament ==
    [][ \A p \in Procs :
          FinalizeStep(p) =>
            \A i \in 1..Len(BracketCalls(outbound')) :
               BracketCalls(outbound')[i].target = Val(db').tournament_id ]_vars

(* handler p answers a submit in this step *)
SubmitReturns(p) ==
    /\ pc[p] \in { "add", "finalize" }
    /\ pc'[p] = "idle"
    /\ resp'.kind = "submit"
    /\ resp'.success

(* C32: a successful submit response reports the finalized flag of the stored
   row and the number of its submissions as they are when the call returns *)
C32_ResponseMatchesRecord ==
    [][ \A p \in Procs :
          SubmitReturns(p) =>
            /\ resp'.finalized = Val(db').finalized
            /\ resp'.judgeCount = judge_count(Val(db')) ]_vars

(* C33: the chat post of a finalization reads KNOCKOUT! exactly if the method
   of the stored result is ko *)
C33_KnockoutTextIffKnockout ==
    [][ \A p \in Procs :
          FinalizeStep(p) =>
            \A i \in 1..Len(ChatPosts(outbound')) :
               (ChatPosts(outbound')[i].text = "KNOCKOUT!")
                  <=> (Val(Val(db').result).winMethod = "ko") ]_vars

====
